---- MODULE Spec2Model ----
(***************************************************************************)
(* fetch-youtube-videos.ts: the pipeline of main() -- channel lookup,      *)
(* uploads lookup, paginated collection of video ids, batched detail       *)
(* lookup, sort, table and JSON output -- and the pure formatter           *)
(* formatDuration.                                                         *)
(*                                                                         *)
(* Strings the code inspects character by character (ISO durations,        *)
(* statistics counters) are sequences of one-character strings.  Video     *)
(* identifiers are opaque; they are naturals here.  Every await of a       *)
(* fetch(...)/res.json() pair is one step: the request is issued and its   *)
(* answer consumed.  The Views, Likes and Title columns of the table are   *)
(* not part of the state.                                                  *)
(***************************************************************************)
EXTENDS Integers, Sequences, FiniteSets, TLC

(* ---------------- bounds of the model ---------------- *)

\* the API serves at most this many pages of the uploads playlist
MaxPages == 3
\* the uploads playlist holds at most this many entries
MaxIds == 120
\* digit strings of a duration component have at most this many digits
MaxDigits == 2

(* ---------------- program constants ---------------- *)

\* videoIds.slice(i, i + 50), i += 50
BatchSize == 50
\* maxResults=50 of the playlistItems request
MaxResults == 50

(* ---------------- JavaScript values ---------------- *)

\* the value of an unset variable / absent property, for string-typed slots
Undefined == "undefined"

\* ToBoolean of a string-or-undefined value
Truthy(v) == v # Undefined /\ v # ""

Min(a, b) == IF a < b THEN a ELSE b

\* Array.prototype.slice(from, to) with 0-based bounds 0 <= from
Slice(s, from, to) == SubSeq(s, from + 1, Min(to, Len(s)))

Digit == {"0", "1", "2", "3", "4", "5", "6", "7", "8", "9"}

DigitValue(c) ==
  CASE c = "0" -> 0 [] c = "1" -> 1 [] c = "2" -> 2 [] c = "3" -> 3
    [] c = "4" -> 4 [] c = "5" -> 5 [] c = "6" -> 6 [] c = "7" -> 7
    [] c = "8" -> 8 [] c = "9" -> 9

DigitChar(d) == <<"0", "1", "2", "3", "4", "5", "6", "7", "8", "9">>[d + 1]

\* Number.prototype.toString of a natural, as the API serialises counters
RECURSIVE DigitsOf(_)
DigitsOf(n) ==
  IF n < 10 THEN <<DigitChar(n)>>
  ELSE Append(DigitsOf(n \div 10), DigitChar(n % 10))

\* parseInt of a string that starts with decimal digits: the value of the
\* longest digit prefix (the API's counters are unsigned integers in decimal)
RECURSIVE ParseIntFrom(_, _, _)
ParseIntFrom(str, k, acc) ==
  IF k > Len(str) \/ str[k] \notin Digit THEN acc
  ELSE ParseIntFrom(str, k + 1, acc * 10 + DigitValue(str[k]))

ParseInt(str) == ParseIntFrom(str, 1, 0)

\* String.prototype.padStart(len, "0")
RECURSIVE PadStart(_, _)
PadStart(str, len) ==
  IF Len(str) >= len THEN str ELSE PadStart(<<"0">> \o str, len)

(* ---------------- formatDuration ---------------- *)

\* index of the first "PT" in s at or after k, 0 when there is none
RECURSIVE FindPT(_, _)
FindPT(s, k) ==
  IF k + 1 > Len(s) THEN 0
  ELSE IF s[k] = "P" /\ s[k + 1] = "T" THEN k
  ELSE FindPT(s, k + 1)

\* length of the run of digits of s that starts at position k  (\d+)
RECURSIVE DigitRun(_, _)
DigitRun(s, k) ==
  IF k > Len(s) \/ s[k] \notin Digit THEN 0 ELSE 1 + DigitRun(s, k + 1)

\* one optional group (?:(\d+)X)? tried at position k
Group(s, k, letter) ==
  LET n == DigitRun(s, k) IN
    IF n >= 1 /\ k + n <= Len(s) /\ s[k + n] = letter
    THEN [present |-> TRUE, text |-> SubSeq(s, k, k + n - 1), next |-> k + n + 1]
    ELSE [present |-> FALSE, text |-> <<>>, next |-> k]

\* isoDuration.match(/PT(?:(\d+)H)?(?:(\d+)M)?(?:(\d+)S)?/)
Match(s) ==
  LET p == FindPT(s, 1) IN
    IF p = 0 THEN [matched |-> FALSE]
    ELSE LET h == Group(s, p + 2, "H")
             m == Group(s, h.next, "M")
             sec == Group(s, m.next, "S")
         IN [matched |-> TRUE, h |-> h, m |-> m, s |-> sec]

formatDuration(isoDuration) ==
  LET match == Match(isoDuration) IN
    IF ~match.matched THEN isoDuration
    ELSE LET hours == IF match.h.present THEN match.h.text \o <<":">> ELSE <<>>
             minutes == IF match.m.present
                        THEN PadStart(match.m.text, IF hours # <<>> THEN 2 ELSE 1)
                        ELSE <<"0">>
             seconds == IF match.s.present
                        THEN PadStart(match.s.text, 2)
                        ELSE <<"0", "0">>
         IN hours \o minutes \o <<":">> \o seconds

(* ---------------- the YouTube Data API, as the program sees it ---------------- *)

\* const CHANNEL_HANDLE = "@aidotengineer", split at the marker character
CHANNEL_HANDLE == <<"@", "aidotengineer">>

\* String.prototype.replace("@", ""): the first occurrence is removed
RECURSIVE ReplaceAt(_)
ReplaceAt(handle) ==
  IF handle = <<>> THEN <<>>
  ELSE IF Head(handle) = "@" THEN Tail(handle)
  ELSE <<Head(handle)>> \o ReplaceAt(Tail(handle))

TheChannelId == "UC-channel"
TheUploadsId == "UU-uploads"

\* what `await fetch(url); await res.json()` can yield: a rejection, or a body
Fetch(bodies) ==
  {[rejected |-> TRUE]} \cup {[rejected |-> FALSE, data |-> d] : d \in bodies}

\* the body the API sends for a request it refuses (quota, unknown id, ...)
ErrorBody == [error |-> [code |-> 403]]

\* channels?part=id&forHandle=...
ChannelsByHandleBodies ==
  {ErrorBody, [items |-> <<>>], [items |-> <<[id |-> TheChannelId]>>]}

\* channels?part=contentDetails&id=...
ChannelsByIdBodies ==
  { ErrorBody,
    [items |-> <<>>],
    [items |-> <<[id |-> TheChannelId]>>],
    [items |-> <<[contentDetails |-> [googlePlusUserId |-> ""]]>>],
    [items |-> <<[contentDetails |-> [relatedPlaylists |-> [likes |-> "LL"]]]>>],
    [items |-> <<[contentDetails |->
                    [relatedPlaylists |-> [likes |-> "LL", uploads |-> TheUploadsId]]]>> ] }

\* the continuation cursor carried by page number k - 1
PageToken(k) == "page" \o ToString(k)

PlaylistItem(id) == [contentDetails |-> [videoId |-> id]]

\* numbers of entries a page can carry (at most maxResults)
PageSizes == {0, 20, MaxResults}

\* the entries the API can put on the next page when `have` entries were
\* served so far: new videos, or the first video alone (once more, if it was
\* served before)
PageItems(have) ==
  { [k \in 1..n |-> PlaylistItem(have + k)] :
      n \in {m \in PageSizes : have + m <= MaxIds} }
  \cup (IF have + 1 <= MaxIds THEN {<<PlaylistItem(1)>>} ELSE {})

\* playlistItems?part=contentDetails&playlistId=...&maxResults=50[&pageToken=...]
PlaylistItemsBodies(playlistId, pageNo, have) ==
  IF playlistId # TheUploadsId THEN {ErrorBody}
  ELSE {ErrorBody}
       \cup {[items |-> its] : its \in PageItems(have)}
       \cup (IF pageNo < MaxPages
             THEN {[items |-> its, nextPageToken |-> PageToken(pageNo + 1)] :
                     its \in PageItems(have)}
             ELSE {})

\* the catalogue of the channel's videos
ViewsOf(id) == ((id * 7) % 13) * 125
LikesOf(id) == (id * 3) % 11
CommentsOf(id) == id % 5

StatisticsOf(id) ==
  CASE id % 4 = 0 -> [likeCount |-> DigitsOf(LikesOf(id)),
                      commentCount |-> DigitsOf(CommentsOf(id))]
    [] id % 4 = 1 -> [viewCount |-> DigitsOf(ViewsOf(id)),
                      likeCount |-> DigitsOf(LikesOf(id)),
                      commentCount |-> DigitsOf(CommentsOf(id))]
    [] id % 4 = 2 -> [viewCount |-> DigitsOf(ViewsOf(id)),
                      commentCount |-> DigitsOf(CommentsOf(id))]
    [] id % 4 = 3 -> [viewCount |-> DigitsOf(ViewsOf(id))]

DurationSamples ==
  << <<"P", "T", "1", "H", "2", "M", "1", "0", "S">>,
     <<"P", "T", "4", "5", "S">>,
     <<"P", "T", "5", "M">>,
     <<"P", "T", "1", "H", "3", "0", "S">>,
     <<"P", "T", "1", "2", "M", "7", "S">>,
     <<"P", "0", "D">> >>

DurationOf(id) == DurationSamples[(id % Len(DurationSamples)) + 1]

VideoItem(id) ==
  [ id |-> id,
    snippet |-> [title |-> <<"Talk", id>>, publishedAt |-> <<"2023-12", (id % 28) + 1>>],
    statistics |-> StatisticsOf(id),
    contentDetails |-> [duration |-> DurationOf(id)] ]

\* the distinct identifiers of a request, in order of first occurrence
Distinct(ids) ==
  LET tagged == [k \in 1..Len(ids) |->
                   [id |-> ids[k], first |-> \A j \in 1..(k - 1) : ids[j] # ids[k]]]
      kept == SelectSeq(tagged, LAMBDA t : t.first)
  IN [k \in 1..Len(kept) |-> kept[k].id]

ItemsFor(ids) == [k \in 1..Len(ids) |-> VideoItem(ids[k])]

\* videos?part=snippet,statistics,contentDetails&id=...: every requested
\* video, or all but the first (deleted or private), or a refusal
VideosBodies(batch) ==
  LET ids == Distinct(batch) IN
    {ErrorBody, [items |-> ItemsFor(ids)]}
    \cup (IF ids # <<>> THEN {[items |-> ItemsFor(Tail(ids))]} ELSE {})

(* ---------------- the state of a run ---------------- *)

VARIABLES
  pc,                 \* where main() stands: the step it awaits
  API_KEY,            \* process.env.YOUTUBE_API_KEY
  exitCode,           \* the exit code of the process
  error,              \* the error main() rejected with, Undefined if none
  channelId,          \* main: const channelId
  uploadsPlaylistId,  \* main: const uploadsPlaylistId
  videoIds,           \* getAllVideoIds: videoIds, then main: videoIds
  nextPageToken,      \* getAllVideoIds: nextPageToken
  i,                  \* getVideoDetails: the loop index
  videos,             \* getVideoDetails: videos, then main: videos
  stdout,             \* console.log: the table
  file,               \* youtube-videos.json
  stderr,             \* console.error
  calls,              \* the requests issued, each with the answer it got
  fmt                 \* a call of formatDuration on its own

run == <<pc, API_KEY, exitCode, error, channelId, uploadsPlaylistId, videoIds,
         nextPageToken, i, videos, stdout, file, stderr, calls>>

vars == <<pc, API_KEY, exitCode, error, channelId, uploadsPlaylistId, videoIds,
          nextPageToken, i, videos, stdout, file, stderr, calls, fmt>>

NoCall == [phase |-> "none"]

Init ==
  /\ pc = "main"
  /\ API_KEY \in {Undefined, "", "AIza-key"}
  /\ exitCode = 0
  /\ error = Undefined
  /\ channelId = Undefined
  /\ uploadsPlaylistId = Undefined
  /\ videoIds = <<>>
  /\ nextPageToken = Undefined
  /\ i = 0
  /\ videos = <<>>
  /\ stdout = [printed |-> FALSE, total |-> 0, rows |-> <<>>]
  /\ file = [written |-> FALSE, content |-> <<>>]
  /\ stderr = <<>>
  /\ calls = <<>>
  /\ fmt = NoCall

\* one entry of the request log
Call(endpoint, arg, pageToken, res) ==
  [ endpoint |-> endpoint, arg |-> arg, pageToken |-> pageToken,
    outcome |-> IF res.rejected THEN "rejected"
                ELSE IF "items" \in DOMAIN res.data THEN "ok" ELSE "error",
    items |-> IF ~res.rejected /\ "items" \in DOMAIN res.data
              THEN res.data.items ELSE <<>>,
    nextPageToken |-> IF ~res.rejected /\ "nextPageToken" \in DOMAIN res.data
                      THEN res.data.nextPageToken ELSE Undefined ]

\* a throw inside main(): the promise main() returned rejects
Throw(e) == pc' = "rejected" /\ error' = e

\* data.items || []
ItemsOrEmpty(data) == IF "items" \in DOMAIN data THEN data.items ELSE <<>>

(* ---------------- main, up to the first request ---------------- *)

\* Main without the credential check
MainWithoutCheck ==
  /\ pc = "main"
  /\ stderr' = Append(stderr, "Fetching videos from @aidotengineer...")
  /\ pc' = "getChannelId"
  /\ UNCHANGED <<API_KEY, exitCode, error, channelId, uploadsPlaylistId, videoIds,
                 nextPageToken, i, videos, stdout, file, calls, fmt>>

Main ==
  /\ pc = "main"
  /\ IF ~Truthy(API_KEY)
     THEN /\ stderr' = stderr \o <<"Error: YOUTUBE_API_KEY environment variable is required",
                                   "To get an API key: ...",
                                   "Usage: YOUTUBE_API_KEY=your_key bun run fetch-youtube-videos.ts">>
          /\ exitCode' = 1
          /\ pc' = "exited"
     ELSE /\ stderr' = Append(stderr, "Fetching videos from @aidotengineer...")
          /\ pc' = "getChannelId"
          /\ UNCHANGED exitCode
  /\ UNCHANGED <<API_KEY, error, channelId, uploadsPlaylistId, videoIds, nextPageToken,
                 i, videos, stdout, file, calls, fmt>>

(* ---------------- getChannelId ---------------- *)

GetChannelId ==
  /\ pc = "getChannelId"
  /\ \E res \in Fetch(ChannelsByHandleBodies) :
       /\ calls' = Append(calls, Call("channels.forHandle", ReplaceAt(CHANNEL_HANDLE),
                                      Undefined, res))
       /\ IF res.rejected
          THEN Throw("NetworkError") /\ UNCHANGED <<channelId, stderr>>
          ELSE IF "items" \notin DOMAIN res.data \/ Len(res.data.items) = 0
          THEN Throw("Error: Channel not found: @aidotengineer")
               /\ UNCHANGED <<channelId, stderr>>
          ELSE /\ channelId' = res.data.items[1].id
               /\ stderr' = Append(stderr, "Channel ID: ...")
               /\ pc' = "getUploadsPlaylistId"
               /\ UNCHANGED error
  /\ UNCHANGED <<API_KEY, exitCode, uploadsPlaylistId, videoIds, nextPageToken,
                 i, videos, stdout, file, fmt>>

(* ---------------- getUploadsPlaylistId ---------------- *)

\* data.items[0].contentDetails.relatedPlaylists.uploads: reading a property
\* of undefined throws a TypeError, reading an absent property gives undefined
UploadsOf(data) ==
  IF "items" \notin DOMAIN data THEN [threw |-> TRUE]
  ELSE IF Len(data.items) = 0 THEN [threw |-> TRUE]
  ELSE IF "contentDetails" \notin DOMAIN data.items[1] THEN [threw |-> TRUE]
  ELSE IF "relatedPlaylists" \notin DOMAIN data.items[1].contentDetails
  THEN [threw |-> TRUE]
  ELSE IF "uploads" \notin DOMAIN data.items[1].contentDetails.relatedPlaylists
  THEN [threw |-> FALSE, value |-> Undefined]
  ELSE [threw |-> FALSE, value |-> data.items[1].contentDetails.relatedPlaylists.uploads]

GetUploadsPlaylistId ==
  /\ pc = "getUploadsPlaylistId"
  /\ \E res \in Fetch(ChannelsByIdBodies) :
       /\ calls' = Append(calls, Call("channels.id", channelId, Undefined, res))
       /\ IF res.rejected
          THEN Throw("NetworkError") /\ UNCHANGED <<uploadsPlaylistId, stderr>>
          ELSE IF UploadsOf(res.data).threw
          THEN Throw("TypeError") /\ UNCHANGED <<uploadsPlaylistId, stderr>>
          ELSE /\ uploadsPlaylistId' = UploadsOf(res.data).value
               /\ stderr' = Append(stderr, "Uploads Playlist ID: ...")
               /\ pc' = "getAllVideoIds"
               /\ UNCHANGED error
  /\ UNCHANGED <<API_KEY, exitCode, channelId, videoIds, nextPageToken,
                 i, videos, stdout, file, fmt>>

(* ---------------- getAllVideoIds: one turn of the do-while loop ---------------- *)

PageCalls == SelectSeq(calls, LAMBDA c : c.endpoint = "playlistItems")

\* for (const item of data.items || []) videoIds.push(item.contentDetails.videoId)
PushVideoIds(ids, data) ==
  LET items == ItemsOrEmpty(data) IN
    ids \o [k \in 1..Len(items) |-> items[k].contentDetails.videoId]

\* nextPageToken = data.nextPageToken
TokenOf(data) ==
  IF "nextPageToken" \in DOMAIN data THEN data.nextPageToken ELSE Undefined

\* GetAllVideoIds with a loop that also ends on a page that is not full
GetAllVideoIdsUntilShortPage ==
  /\ pc = "getAllVideoIds"
  /\ \E res \in Fetch(PlaylistItemsBodies(uploadsPlaylistId, Len(PageCalls) + 1,
                                          Len(videoIds))) :
       /\ calls' = Append(calls, Call("playlistItems", uploadsPlaylistId,
                                      IF Truthy(nextPageToken) THEN nextPageToken
                                      ELSE Undefined, res))
       /\ IF res.rejected
          THEN Throw("NetworkError") /\ UNCHANGED <<videoIds, nextPageToken, stderr>>
          ELSE /\ videoIds' = PushVideoIds(videoIds, res.data)
               /\ nextPageToken' = TokenOf(res.data)
               /\ stderr' = Append(stderr, "Fetched ... video IDs...")
               /\ pc' = IF Truthy(nextPageToken')
                           /\ Len(ItemsOrEmpty(res.data)) = MaxResults
                        THEN "getAllVideoIds"
                        ELSE "getVideoDetails"
               /\ UNCHANGED error
  /\ UNCHANGED <<API_KEY, exitCode, channelId, uploadsPlaylistId,
                 i, videos, stdout, file, fmt>>

GetAllVideoIds ==
  /\ pc = "getAllVideoIds"
  /\ \E res \in Fetch(PlaylistItemsBodies(uploadsPlaylistId, Len(PageCalls) + 1,
                                          Len(videoIds))) :
       /\ calls' = Append(calls, Call("playlistItems", uploadsPlaylistId,
                                      IF Truthy(nextPageToken) THEN nextPageToken
                                      ELSE Undefined, res))
       /\ IF res.rejected
          THEN Throw("NetworkError") /\ UNCHANGED <<videoIds, nextPageToken, stderr>>
          ELSE /\ videoIds' = PushVideoIds(videoIds, res.data)
               /\ nextPageToken' = TokenOf(res.data)
               /\ stderr' = Append(stderr, "Fetched ... video IDs...")
               /\ pc' = IF Truthy(nextPageToken') THEN "getAllVideoIds"
                        ELSE "getVideoDetails"
               /\ UNCHANGED error
  /\ UNCHANGED <<API_KEY, exitCode, channelId, uploadsPlaylistId,
                 i, videos, stdout, file, fmt>>

(* ---------------- getVideoDetails: one turn of the for loop ---------------- *)

BatchCalls == SelectSeq(calls, LAMBDA c : c.endpoint = "videos")

\* parseInt(item.statistics.<field> || "0")
StatOf(statistics, field) ==
  ParseInt(IF field \in DOMAIN statistics /\ statistics[field] # <<>>
           THEN statistics[field] ELSE <<"0">>)

\* the record pushed for one item of the response
Video(item) ==
  [ id |-> item.id,
    title |-> item.snippet.title,
    publishedAt |-> item.snippet.publishedAt,
    viewCount |-> StatOf(item.statistics, "viewCount"),
    likeCount |-> StatOf(item.statistics, "likeCount"),
    commentCount |-> StatOf(item.statistics, "commentCount"),
    duration |-> item.contentDetails.duration,
    url |-> <<"https://www.youtube.com/watch?v=", item.id>> ]

\* PushVideos with a loop that starts at the second item
PushVideosFromSecond(vs, data) ==
  LET items == ItemsOrEmpty(data) IN
    vs \o [k \in 1..(Len(items) - 1) |-> Video(items[k + 1])]

\* for (const item of data.items || []) videos.push({...})
PushVideos(vs, data) ==
  LET items == ItemsOrEmpty(data) IN
    vs \o [k \in 1..Len(items) |-> Video(items[k])]

\* Batch with the end of the slice one too far
BatchOneTooFar(ids, from) == Slice(ids, from, from + BatchSize + 1)

\* const batch = videoIds.slice(i, i + 50)
Batch(ids, from) == Slice(ids, from, from + BatchSize)

\* GetVideoDetails with a step one short of the batch size
GetVideoDetailsShortStep ==
  /\ pc = "getVideoDetails"
  /\ i < Len(videoIds)
  /\ \E res \in Fetch(VideosBodies(Batch(videoIds, i))) :
       /\ calls' = Append(calls, Call("videos", Batch(videoIds, i), Undefined, res))
       /\ IF res.rejected
          THEN Throw("NetworkError") /\ UNCHANGED <<videos, i, stderr>>
          ELSE /\ videos' = PushVideos(videos, res.data)
               /\ i' = i + BatchSize - 1
               /\ stderr' = Append(stderr, "Fetched details for .../... videos...")
               /\ UNCHANGED <<pc, error>>
  /\ UNCHANGED <<API_KEY, exitCode, channelId, uploadsPlaylistId, videoIds,
                 nextPageToken, stdout, file, fmt>>

GetVideoDetails ==
  /\ pc = "getVideoDetails"
  /\ i < Len(videoIds)
  /\ \E res \in Fetch(VideosBodies(Batch(videoIds, i))) :
       /\ calls' = Append(calls, Call("videos", Batch(videoIds, i), Undefined, res))
       /\ IF res.rejected
          THEN Throw("NetworkError") /\ UNCHANGED <<videos, i, stderr>>
          ELSE /\ videos' = PushVideos(videos, res.data)
               /\ i' = i + BatchSize
               /\ stderr' = Append(stderr, "Fetched details for .../... videos...")
               /\ UNCHANGED <<pc, error>>
  /\ UNCHANGED <<API_KEY, exitCode, channelId, uploadsPlaylistId, videoIds,
                 nextPageToken, stdout, file, fmt>>

(* ---------------- main: sort, table, JSON ---------------- *)

\* Compare with its operands swapped
CompareAscending(a, b) == a.viewCount - b.viewCount

\* the comparator (a, b) => b.viewCount - a.viewCount
Compare(a, b) == b.viewCount - a.viewCount

\* the view counts of a list in the order the comparator puts them: each
\* one chosen so that the comparator puts none of the others before it
RECURSIVE Descending(_)
Descending(counts) ==
  IF counts = {} THEN <<>>
  ELSE LET top == CHOOSE c \in counts :
                    \A d \in counts : Compare([viewCount |-> c], [viewCount |-> d]) <= 0
       IN <<top>> \o Descending(counts \ {top})

\* the elements of the list the comparator ranks equal to count, in list order
RECURSIVE SortedGroups(_, _, _)
SortedGroups(list, counts, k) ==
  IF k > Len(counts) THEN <<>>
  ELSE SelectSeq(list, LAMBDA v : Compare(v, [viewCount |-> counts[k]]) = 0)
       \o SortedGroups(list, counts, k + 1)

\* Array.prototype.sort with the comparator above: a stable sort, so elements
\* the comparator ranks equal keep their order
Sort(list) ==
  SortedGroups(list, Descending({list[k].viewCount : k \in 1..Len(list)}), 1)

\* one line of the table, for the video at 0-based position index
Row(video, index) ==
  [ rank |-> index + 1,
    duration |-> formatDuration(video.duration),
    url |-> video.url ]

\* videos.map((v, i) => ({ rank: i + 1, ...v, durationFormatted: ... }))
JsonEntry(v, index) ==
  [ rank |-> index + 1,
    id |-> v.id,
    title |-> v.title,
    publishedAt |-> v.publishedAt,
    viewCount |-> v.viewCount,
    likeCount |-> v.likeCount,
    commentCount |-> v.commentCount,
    duration |-> v.duration,
    url |-> v.url,
    durationFormatted |-> formatDuration(v.duration) ]

\* getVideoDetails returns; main sorts, prints the table and writes the file
MainOutput ==
  /\ pc = "getVideoDetails"
  /\ i >= Len(videoIds)
  /\ videos' = Sort(videos)
  /\ stdout' = [ printed |-> TRUE, total |-> Len(videos'),
                 rows |-> [k \in 1..Len(videos') |-> Row(videos'[k], k - 1)] ]
  /\ file' = [ written |-> TRUE,
               content |-> [k \in 1..Len(videos') |-> JsonEntry(videos'[k], k - 1)] ]
  /\ pc' = "written"
  /\ UNCHANGED <<API_KEY, exitCode, error, channelId, uploadsPlaylistId, videoIds,
                 nextPageToken, i, stderr, calls, fmt>>

\* await Bun.write(...) is over: main returns and the process ends
MainDone ==
  /\ pc = "written"
  /\ stderr' = Append(stderr, "JSON output saved to youtube-videos.json")
  /\ pc' = "exited"
  /\ UNCHANGED <<API_KEY, exitCode, error, channelId, uploadsPlaylistId, videoIds,
                 nextPageToken, i, videos, stdout, file, calls, fmt>>

\* main().catch(console.error): the rejection is handled by printing it
MainCatch ==
  /\ pc = "rejected"
  /\ stderr' = Append(stderr, error)
  /\ pc' = "exited"
  /\ UNCHANGED <<API_KEY, exitCode, error, channelId, uploadsPlaylistId, videoIds,
                 nextPageToken, i, videos, stdout, file, calls, fmt>>

Next ==
  \/ Main
  \/ GetChannelId
  \/ GetUploadsPlaylistId
  \/ GetAllVideoIds
  \/ GetVideoDetails
  \/ MainOutput
  \/ MainDone
  \/ MainCatch

Spec == Init /\ [][Next]_vars

(* ---------------- formatDuration, called on its own ---------------- *)

\* the digits the components of a duration are written with
DurationDigits == {"0", "3", "7"}

\* digit strings of 1..n digits
RECURSIVE DigitStrings(_)
DigitStrings(n) ==
  IF n = 0 THEN {}
  ELSE DigitStrings(n - 1)
       \cup {<<d>> : d \in DurationDigits}
       \cup {Append(t, d) : t \in {u \in DigitStrings(n - 1) : Len(u) = n - 1},
                            d \in DurationDigits}

\* a component of a duration: absent (the empty string) or a digit string
Components == {<<>>} \cup DigitStrings(MaxDigits)

\* PT[<h>H][<m>M][<s>S]
IsoDuration(h, m, s) ==
  <<"P", "T">> \o (IF h # <<>> THEN Append(h, "H") ELSE <<>>)
               \o (IF m # <<>> THEN Append(m, "M") ELSE <<>>)
               \o (IF s # <<>> THEN Append(s, "S") ELSE <<>>)

InitDuration ==
  /\ pc = "formatDuration"
  /\ API_KEY = Undefined
  /\ exitCode = 0
  /\ error = Undefined
  /\ channelId = Undefined
  /\ uploadsPlaylistId = Undefined
  /\ videoIds = <<>>
  /\ nextPageToken = Undefined
  /\ i = 0
  /\ videos = <<>>
  /\ stdout = [printed |-> FALSE, total |-> 0, rows |-> <<>>]
  /\ file = [written |-> FALSE, content |-> <<>>]
  /\ stderr = <<>>
  /\ calls = <<>>
  /\ \E h \in Components, m \in Components, s \in Components :
       fmt = [phase |-> "called", h |-> h, m |-> m, s |-> s,
              isoDuration |-> IsoDuration(h, m, s)]

FormatDuration ==
  /\ fmt.phase = "called"
  /\ fmt' = [phase |-> "returned", h |-> fmt.h, m |-> fmt.m, s |-> fmt.s,
             isoDuration |-> fmt.isoDuration,
             result |-> formatDuration(fmt.isoDuration)]
  /\ UNCHANGED run

NextDuration == FormatDuration

SpecDuration == InitDuration /\ [][NextDuration]_vars

(* ---------------- properties ---------------- *)

Last(s) == s[Len(s)]

\* the entries of all answers of a list of calls, in call order then answer order
RECURSIVE AllItems(_)
AllItems(cs) ==
  IF cs = <<>> THEN <<>> ELSE cs[1].items \o AllItems(Tail(cs))

Range(s) == {s[k] : k \in 1..Len(s)}

\* no element occurs twice in s
NoRepeat(s) == Cardinality(Range(s)) = Len(s)

Occurrences(s, x) == Cardinality({k \in 1..Len(s) : s[k] = x})

\* s and t hold the same elements, each as often in t as in s
IsPermutation(s, t) ==
  /\ Len(s) = Len(t)
  /\ Range(s) = Range(t)
  /\ NoRepeat(s) \/ \A x \in Range(s) : Occurrences(s, x) = Occurrences(t, x)

CeilDiv(n, d) == (n + d - 1) \div d

\* getAllVideoIds has returned to main
Collected == pc \in {"getVideoDetails", "written"} \/ file.written

\* C1: getAllVideoIds asks for one page after another, each request carrying the
\* cursor of the page before it; it goes on exactly as long as the page just read
\* carries a cursor, returns after the first page without one, and its list is
\* the concatenation of the entries of all pages, in page order and in-page order.
C1_PaginationCollectsEveryPage ==
  LET P == PageCalls
      entries == AllItems(P)
  IN
    /\ \A k \in 1..Len(P) - 1 : P[k].outcome # "rejected" /\ Truthy(P[k].nextPageToken)
    /\ \A k \in 1..Len(P) :
         P[k].pageToken = IF k = 1 THEN Undefined ELSE P[k - 1].nextPageToken
    /\ Len(videoIds) = Len(entries)
    /\ \A k \in 1..Len(entries) : videoIds[k] = entries[k].contentDetails.videoId
    /\ pc = "getAllVideoIds" /\ Len(P) > 0 =>
         Last(P).outcome # "rejected" /\ Truthy(Last(P).nextPageToken)
    /\ Collected =>
         /\ Len(P) >= 1
         /\ Last(P).outcome # "rejected"
         /\ ~Truthy(Last(P).nextPageToken)

\* C1 witness: three pages of 50, 50 and 20 entries were read, the third one
\* without a cursor, and the collector returned all 120 identifiers.
C1_ThreePagesCollected ==
  /\ pc = "getVideoDetails"
  /\ Len(PageCalls) = 3
  /\ \A k \in 1..3 : PageCalls[k].outcome = "ok"
  /\ <<Len(PageCalls[1].items), Len(PageCalls[2].items), Len(PageCalls[3].items)>>
       = <<50, 50, 20>>
  /\ Len(videoIds) = 120

\* C2: request k of getVideoDetails carries identifiers 50(k-1)+1 .. min(50k, N)
\* of the list, in order; every batch but the last has 50 identifiers; the
\* requests follow one another; once the function has returned there were
\* exactly ceil(N/50) of them, so each identifier went out in exactly one batch.
C2_BatchesOfFifty ==
  LET B == BatchCalls
      N == Len(videoIds)
  IN /\ \A k \in 1..Len(B) :
          /\ B[k].arg = SubSeq(videoIds, 50 * (k - 1) + 1, Min(50 * k, N))
          /\ Len(B[k].arg) >= 1
     /\ \A k \in 1..Len(B) - 1 : Len(B[k].arg) = 50 /\ B[k].outcome # "rejected"
     /\ Len(B) <= CeilDiv(N, 50)
     /\ Len(B) > 0 => Collected \/ pc \in {"rejected", "exited"}
     /\ pc = "written" \/ file.written => Len(B) = CeilDiv(N, 50)

\* C2 witness: 120 identifiers went out as batches of 50, 50 and 20.
C2_Batches50_50_20 ==
  /\ pc = "written"
  /\ Len(videoIds) = 120
  /\ Len(BatchCalls) = 3
  /\ <<Len(BatchCalls[1].arg), Len(BatchCalls[2].arg), Len(BatchCalls[3].arg)>>
       = <<50, 50, 20>>

\* what a counter of a video is worth: its value in the catalogue if the
\* API reports the counter for that video, 0 if the field is absent
CounterOf(id, field, value) ==
  IF field \in DOMAIN StatisticsOf(id) THEN value ELSE 0

\* C3: the list of getVideoDetails holds one record per item the details
\* endpoint returned, in batch order then response order, whatever identifiers
\* the responses left out; a counter absent from an item is 0 in its record; a
\* response that leaves identifiers out raises no error.
C3_OneRecordPerReturnedItem ==
  LET R == AllItems(BatchCalls) IN
    /\ Len(videos) = Len(R)
    /\ pc = "getVideoDetails" => \A k \in 1..Len(R) : videos[k].id = R[k].id
    /\ {videos[k].id : k \in 1..Len(videos)} = {R[k].id : k \in 1..Len(R)}
    /\ \A k \in 1..Len(videos) :
         LET id == videos[k].id IN
           /\ videos[k].viewCount = CounterOf(id, "viewCount", ViewsOf(id))
           /\ videos[k].likeCount = CounterOf(id, "likeCount", LikesOf(id))
           /\ videos[k].commentCount = CounterOf(id, "commentCount", CommentsOf(id))
    /\ Len(BatchCalls) > 0 /\ error # Undefined => Last(BatchCalls).outcome = "rejected"

\* C3 witness: 120 identifiers were requested, one had no item in its batch's
\* response, and the run ended with 119 records and no error.
C3_OneOf120Missing ==
  /\ pc = "exited"
  /\ error = Undefined
  /\ Len(videoIds) = 120
  /\ \A k \in 1..Len(BatchCalls) : BatchCalls[k].outcome = "ok"
  /\ Len(videos) = 119
  /\ \E k \in 1..Len(videos) : "viewCount" \notin DOMAIN StatisticsOf(videos[k].id)

\* C4: without a credential no request is ever issued, neither the table nor
\* the file is produced, and the run ends with exit code 1.
C4_NoCredentialNoNetwork ==
  ~Truthy(API_KEY) =>
    /\ calls = <<>>
    /\ ~stdout.printed
    /\ ~file.written
    /\ pc \in {"main", "exited"}
    /\ pc = "exited" => exitCode = 1

\* C4 witness: a run without YOUTUBE_API_KEY has ended.
C4_ExitedWithoutCredential ==
  API_KEY = Undefined /\ pc = "exited" /\ exitCode = 1 /\ calls = <<>>

\* C5: a run in which a step failed with an error ends with a non-zero exit
\* code, and exit code 0 is reached only when every step succeeded.
C5_ErrorsExitNonZero ==
  pc = "exited" /\ error # Undefined => exitCode # 0

\* a page or batch request failed: the fetch rejected, or the API answered
\* with an error body that has no items
RequestFailed ==
  \E k \in 1..Len(calls) :
    /\ calls[k].endpoint \in {"playlistItems", "videos"}
    /\ calls[k].outcome \in {"rejected", "error"}

\* C6: after a failed page or batch request (in a run that found the uploads
\* playlist) no function returns a partial list, no later step runs, and
\* neither the table nor the file is produced.
C6_FailedRequestIsFatal ==
  RequestFailed /\ uploadsPlaylistId = TheUploadsId =>
    /\ pc \in {"rejected", "exited"}
    /\ ~stdout.printed
    /\ ~file.written

\* C7: the Video ID Collector is only ever started with a real uploads
\* collection identifier: getUploadsPlaylistId never returns undefined or "".
C7_UploadsIdIsReal ==
  pc = "getAllVideoIds" \/ Len(PageCalls) > 0 => Truthy(uploadsPlaylistId)

\* the fetched list, as identifier and view count of each returned item
Fetched ==
  LET R == AllItems(BatchCalls) IN
    [k \in 1..Len(R) |-> <<R[k].id, CounterOf(R[k].id, "viewCount", ViewsOf(R[k].id))>>]

\* C8: the emitted order is a permutation of the fetched list in descending
\* order of viewCount; table and file carry ranks 1..len by final position,
\* the same rank for the same video; a strictly larger viewCount has a strictly
\* smaller rank.
C8_RanksFollowViews ==
  file.written =>
    LET F == file.content
        T == stdout.rows
    IN /\ stdout.printed /\ stdout.total = Len(F)
       /\ Len(T) = Len(F)
       /\ IsPermutation(Fetched, [k \in 1..Len(F) |-> <<F[k].id, F[k].viewCount>>])
       /\ \A k \in 1..Len(F) :
            F[k].rank = k /\ T[k].rank = k /\ T[k].url = F[k].url
       /\ \A k \in 1..(Len(F) - 1) : F[k].viewCount >= F[k + 1].viewCount
       /\ \A j, k \in 1..Len(F) :
            F[j].viewCount > F[k].viewCount => F[j].rank < F[k].rank

\* C8 witness: a list whose first video has fewer views than its second, and
\* which has two videos with the same views, was ranked and written.
C8_RankedAListOutOfOrder ==
  /\ file.written
  /\ Len(Fetched) >= 3
  /\ Fetched[1][2] < Fetched[2][2]
  /\ \E j, k \in 1..Len(Fetched) : j # k /\ Fetched[j][2] = Fetched[k][2]

\* C9: formatDuration gives H:MM:SS, minutes and seconds zero-padded to at least
\* two digits, when hours are present, and M:SS with unpadded minutes when
\* they are absent; absent minutes count as 0 and absent seconds as 00.
C9_ClockFormat ==
  fmt.phase = "returned" =>
    LET minutes == IF fmt.m # <<>> THEN fmt.m ELSE <<"0">>
        seconds == IF fmt.s # <<>> THEN fmt.s ELSE <<"0">>
    IN fmt.result =
         IF fmt.h # <<>>
         THEN fmt.h \o <<":">> \o PadStart(minutes, 2) \o <<":">> \o PadStart(seconds, 2)
         ELSE minutes \o <<":">> \o PadStart(seconds, 2)

\* C10 as stated: at the end of a successful run no two records share an id,
\* whatever pages and batch responses the API served.
C10_NoTwoRecordsShareAnId ==
  file.written => NoRepeat([k \in 1..Len(file.content) |-> file.content[k].id])

\* C10 as amended: the final set holds exactly one record per item the details
\* endpoint returned; when the pages served no identifier twice, no two records
\* share an id and the ids are those for which details were returned.
C10_OneRecordPerCollectedId ==
  file.written =>
    LET ids == [k \in 1..Len(file.content) |-> file.content[k].id]
        R == AllItems(BatchCalls)
    IN /\ Len(ids) = Len(R)
       /\ NoRepeat(videoIds) =>
            /\ NoRepeat(ids)
            /\ {ids[k] : k \in 1..Len(ids)} = {R[k].id : k \in 1..Len(R)}
            /\ {ids[k] : k \in 1..Len(ids)} \subseteq {videoIds[k] : k \in 1..Len(videoIds)}

\* C10 witness: 70 distinct identifiers went out in two batches and every one
\* of them has its record in the file.
C10_TwoBatchesNoRepeat ==
  /\ file.written
  /\ NoRepeat(videoIds)
  /\ Len(videoIds) = 70
  /\ Len(BatchCalls) = 2
  /\ Len(file.content) = 70

====
